---- MODULE Spec2Model ----
(***************************************************************************)
(* Model of bin/polylint.js, the command-line driver of polylint.          *)
(*                                                                         *)
(* The script runs top to bottom once (option handling, policy loader,     *)
(* root resolver, first call of processInput) and then continues in        *)
(* callbacks: the fs.readFile callback of the policy loader, the .then and *)
(* .catch callbacks of each analyzer promise, and the two process-level    *)
(* handlers.  pc is the position of the orchestrator's chain.              *)
(*                                                                         *)
(* JavaScript strings that the code inspects (the root) are sequences of   *)
(* one-character strings.  Indices of inputs are 0-based as in the code;   *)
(* inputs[i] of the code is inputs[i + 1] here.                            *)
(***************************************************************************)
EXTENDS Integers, Sequences, FiniteSets, TLC

VARIABLES
    options,              \* result of cli.parse(): help, input, policy, root, bowerdir
    pc,                   \* position of the script / of the processInput chain
    jsconfPolicyPromise,  \* the policy promise: its state and value, and which promise
                          \* object it is (id 0: Promise.resolve(null); id n: the promise
                          \* of the n-th fs.readFile)
    root,                 \* var root
    fatalFailureOccurred, \* var fatalFailureOccurred
    inputIndex,           \* inputIndex of the processInput call whose promise chain is current
    calls,                \* the (input, options) arguments of the polylint calls, in order
    analysis,             \* state of the promise returned by polylint(inputs[i], ..), per i
    results,              \* the warning records input i's promise resolved with
    log,                  \* console output and analyzer calls, in order
    exitCode,             \* <<>> while running, <<c>> once the process has ended with status c
    exitSite,             \* which statement ended the process
    guardFired            \* the process-level handlers that have run (each prints its diagnostic)

vars == <<options, pc, jsconfPolicyPromise, root, fatalFailureOccurred, inputIndex, calls,
          analysis, results, log, exitCode, exitSite, guardFired>>

(***************************************************************************)
(* Bounds                                                                  *)
(***************************************************************************)
MaxInputs == 2      \* longest input list
MaxWarnings == 2    \* most warning records the analyzer returns in one run
MaxRootLen == 2     \* longest raw --root string

(***************************************************************************)
(* Values                                                                  *)
(***************************************************************************)
RootChars == {"a", "/", "\\"}

\* options.root when --root is given without a value (null); not a string
NullRoot == << "<null>" >>

\* value of var root before line 126 has run
UndefinedRoot == << "<undefined>" >>

RootStrings == UNION {[1..n -> RootChars] : n \in 0..MaxRootLen}

\* every value options.root can take: a string, or null
RawRoots == RootStrings \cup {NullRoot}

\* the raw roots of the runs of the whole program: none, and a directory name
RunRoots == {<<>>, <<"a">>}

\* options.policy: null (the default), the empty string, or the path of a file
\* that cannot be read, is not JSON, holds invalid requirements, or holds a policy
PolicyOptions ==
    {"<null>", "", "unreadable.json", "malformed.json", "invalid.json", "policy.json"}

\* the default of --bowerdir and one explicit value
BowerdirOptions == {"bower_components", "lib"}

InputName(i) == <<"in", i>>

\* options.input: undefined when no input was given, otherwise the list
InputOptions ==
    {[defined |-> FALSE, list |-> <<>>]} \cup
    {[defined |-> TRUE, list |-> [i \in 1..n |-> InputName(i)]] : n \in 0..MaxInputs}

\* a warning record: its fatal flag, and whether it has a location object
Warnings == [fatal : BOOLEAN, hasLocation : BOOLEAN]

WarningSeqs(max) == UNION {[1..n -> Warnings] : n \in 0..max}

Ev(e, i, k) == [ev |-> e, i |-> i, k |-> k]

\* var inputs = options.input
inputs == options.input.list

\* JavaScript truthiness of options.policy
PolicyGiven == options.policy \notin {"<null>", ""}

\* positions in which the top-level script has finished and callbacks run
AsyncPcs == {"inflight", "then", "catch", "stopped"}

\* number of warning records returned so far in this run
RECURSIVE SumLen(_, _)
SumLen(f, S) ==
    IF S = {} THEN 0
    ELSE LET i == CHOOSE x \in S : TRUE IN Len(f[i]) + SumLen(f, S \ {i})

\* the state when the script starts, for a command line whose --root is in roots
InitWith(roots) ==
    /\ options \in [help : BOOLEAN, input : InputOptions, policy : PolicyOptions,
                    root : roots, bowerdir : BowerdirOptions]
    /\ pc = "help"
    /\ jsconfPolicyPromise = [state |-> "undefined", value |-> "none", id |-> 0]
    /\ root = UndefinedRoot
    /\ fatalFailureOccurred = FALSE
    /\ inputIndex = 0
    /\ calls = <<>>
    /\ analysis = [i \in 0..(Len(inputs) - 1) |-> "idle"]
    /\ results = [i \in 0..(Len(inputs) - 1) |-> <<>>]
    /\ log = <<>>
    /\ exitCode = <<>>
    /\ exitSite = "none"
    /\ guardFired = {}

Init == InitWith(RunRoots)

\* the same, over every raw root up to MaxRootLen
RootInit == InitWith(RawRoots)

(***************************************************************************)
(* Top-level script                                                        *)
(***************************************************************************)

\* HelpCheck without the process.exit(0): usage is printed and the script goes on
HelpCheck_NoExit ==
    /\ pc = "help"
    /\ log' = IF options.help THEN Append(log, Ev("usage", 0, 0)) ELSE log
    /\ pc' = "inputs"
    /\ UNCHANGED <<options, calls, jsconfPolicyPromise, root, fatalFailureOccurred, inputIndex,
                   analysis, results, exitCode, exitSite, guardFired>>

\* if (options.help) { console.log(usage); process.exit(0); }
HelpCheck ==
    /\ pc = "help"
    /\ IF options.help
       THEN /\ log' = Append(log, Ev("usage", 0, 0))
            /\ exitCode' = <<0>>
            /\ exitSite' = "help"
            /\ pc' = "exited"
       ELSE /\ pc' = "inputs"
            /\ UNCHANGED <<log, exitCode, exitSite>>
    /\ UNCHANGED <<options, calls, jsconfPolicyPromise, root, fatalFailureOccurred, inputIndex,
                   analysis, results, guardFired>>

\* CheckInputs testing only !inputs, not !inputs.length
CheckInputs_MissingOnly ==
    /\ pc = "inputs"
    /\ LET inputsOk == options.input.defined
       IN IF ~inputsOk
          THEN /\ log' = log \o <<Ev("missing", 0, 0), Ev("usage", 0, 0)>>
               /\ exitCode' = <<-1>>
               /\ exitSite' = "usage"
               /\ pc' = "exited"
          ELSE /\ pc' = "policy"
               /\ UNCHANGED <<log, exitCode, exitSite>>
    /\ UNCHANGED <<options, calls, jsconfPolicyPromise, root, fatalFailureOccurred, inputIndex,
                   analysis, results, guardFired>>

\* inputsOk: if (!inputs || !inputs.length) ... if (!inputsOk) { usage; process.exit(-1) }
CheckInputs ==
    /\ pc = "inputs"
    /\ LET inputsOk == ~(~options.input.defined \/ Len(inputs) = 0)
       IN IF ~inputsOk
          THEN /\ log' = log \o <<Ev("missing", 0, 0), Ev("usage", 0, 0)>>
               /\ exitCode' = <<-1>>
               /\ exitSite' = "usage"
               /\ pc' = "exited"
          ELSE /\ pc' = "policy"
               /\ UNCHANGED <<log, exitCode, exitSite>>
    /\ UNCHANGED <<options, calls, jsconfPolicyPromise, root, fatalFailureOccurred, inputIndex,
                   analysis, results, guardFired>>

\* LoadPolicy reading the file synchronously: the promise is settled when it is created
LoadPolicy_Sync ==
    /\ pc = "policy"
    /\ \E outcome \in {"IOError", "ParseError", "PolicyError", "policy"} :
          jsconfPolicyPromise' =
             IF ~PolicyGiven THEN [state |-> "fulfilled", value |-> "null", id |-> 0]
             ELSE IF outcome = "policy"
                  THEN [state |-> "fulfilled", value |-> "policy", id |-> 1]
                  ELSE [state |-> "rejected", value |-> outcome, id |-> 1]
    /\ pc' = "root"
    /\ UNCHANGED <<options, calls, root, fatalFailureOccurred, inputIndex, analysis, results,
                   log, exitCode, exitSite, guardFired>>

\* var jsconfPolicyPromise = Promise.resolve(null); if (options.policy) { new Promise(.. fs.readFile ..) }
LoadPolicy ==
    /\ pc = "policy"
    /\ jsconfPolicyPromise' =
          IF PolicyGiven
          THEN [state |-> "pending", value |-> "none", id |-> jsconfPolicyPromise.id + 1]
          ELSE [state |-> "fulfilled", value |-> "null", id |-> 0]
    /\ pc' = "root"
    /\ UNCHANGED <<options, calls, root, fatalFailureOccurred, inputIndex, analysis, results,
                   log, exitCode, exitSite, guardFired>>

\* /[\/\\]$/.test(r)
EndsWithSeparator(r) == Len(r) > 0 /\ r[Len(r)] \in {"/", "\\"}

\* NormalizeRoot without the test for a trailing separator
NormalizeRoot_AlwaysAppend(raw) ==
    LET r == IF raw = NullRoot \/ raw = <<>> THEN <<>> ELSE raw
    IN IF r # <<>> THEN Append(r, "/") ELSE r

\* NormalizeRoot whose pattern is /\/$/: the backslash is not taken as a separator
NormalizeRoot_SlashOnly(raw) ==
    LET r == IF raw = NullRoot \/ raw = <<>> THEN <<>> ELSE raw
    IN IF r # <<>> /\ r[Len(r)] # "/" THEN Append(r, "/") ELSE r

\* var root = options.root || ''; if (root !== '' && !/[\/\\]$/.test(root)) { root += '/'; }
NormalizeRoot(raw) ==
    LET r == IF raw = NullRoot \/ raw = <<>> THEN <<>> ELSE raw
    IN IF r # <<>> /\ ~EndsWithSeparator(r) THEN Append(r, "/") ELSE r

ResolveRoot ==
    /\ pc = "root"
    /\ root' = NormalizeRoot(options.root)
    /\ pc' = "run"
    /\ UNCHANGED <<options, calls, jsconfPolicyPromise, fatalFailureOccurred, inputIndex,
                   analysis, results, log, exitCode, exitSite, guardFired>>

(***************************************************************************)
(* Warning reporter                                                        *)
(***************************************************************************)

\* prettyPrintWarning setting the flag for every record
PrettyPrintWarning_AlwaysFatal(warning, i, k, st) ==
    IF warning.hasLocation
    THEN [fatal |-> TRUE, log |-> Append(st.log, Ev("report", i, k)), threw |-> FALSE]
    ELSE [fatal |-> TRUE, log |-> st.log, threw |-> TRUE]

\* prettyPrintWarning assigning the record's flag: fatalFailureOccurred = warning.fatal
PrettyPrintWarning_Assign(warning, i, k, st) ==
    IF warning.hasLocation
    THEN [fatal |-> warning.fatal, log |-> Append(st.log, Ev("report", i, k)),
          threw |-> FALSE]
    ELSE [fatal |-> warning.fatal, log |-> st.log, threw |-> TRUE]

\* prettyPrintWarning(warning) for the k-th record of input i.
\* st = [fatal, log, threw]: the flag, the console, and whether the call threw
\* (reading warning.location.line of a record without location throws, after
\* the flag has been set).
PrettyPrintWarning(warning, i, k, st) ==
    LET f == IF warning.fatal THEN TRUE ELSE st.fatal
    IN IF warning.hasLocation
       THEN [fatal |-> f, log |-> Append(st.log, Ev("report", i, k)), threw |-> FALSE]
       ELSE [fatal |-> f, log |-> st.log, threw |-> TRUE]

\* the forEach as a loop that stops one record early: for (k = 0; k < length - 1; k++)
RECURSIVE ForEachWarning_OffByOne(_, _, _, _)
ForEachWarning_OffByOne(lintWarnings, i, k, st) ==
    IF k >= Len(lintWarnings) \/ st.threw
    THEN st
    ELSE ForEachWarning_OffByOne(lintWarnings, i, k + 1,
                                 PrettyPrintWarning(lintWarnings[k], i, k, st))

\* lintWarnings.forEach(function(warning){ prettyPrintWarning(warning); })
RECURSIVE ForEachWarning(_, _, _, _)
ForEachWarning(lintWarnings, i, k, st) ==
    IF k > Len(lintWarnings) \/ st.threw
    THEN st
    ELSE ForEachWarning(lintWarnings, i, k + 1,
                        PrettyPrintWarning(lintWarnings[k], i, k, st))

(***************************************************************************)
(* Sequential run orchestrator                                             *)
(***************************************************************************)

\* the options object of a polylint call one promise object later for each input,
\* as when the policy is loaded once per input
PolylintOptions_PolicyPerInput(index) ==
    [root |-> root, jsconfPolicy |-> jsconfPolicyPromise.id + index,
     redirect |-> options.bowerdir]

\* { root: root, jsconfPolicy: jsconfPolicyPromise, redirect: options.bowerdir }
\* in processInput(index); the promise is passed by reference (its id)
PolylintOptions(index) ==
    [root |-> root, jsconfPolicy |-> jsconfPolicyPromise.id, redirect |-> options.bowerdir]

\* processInput with the end test off by one: if (inputIndex === inputs.length - 1)
ProcessInput_OffByOne(index, f, lg, top) ==
    IF index = Len(inputs) - 1
    THEN /\ exitCode' = <<IF f THEN 1 ELSE 0>>
         /\ exitSite' = "decision"
         /\ pc' = "exited"
         /\ fatalFailureOccurred' = f
         /\ log' = lg
         /\ UNCHANGED <<inputIndex, calls, analysis, guardFired>>
    ELSE /\ log' = Append(lg, Ev("invoke", index, 0))
         /\ calls' = Append(calls, [input |-> inputs[index + 1],
                                    options |-> PolylintOptions(index)])
         /\ analysis' = [analysis EXCEPT ![index] = "pending"]
         /\ inputIndex' = index
         /\ pc' = "inflight"
         /\ fatalFailureOccurred' = f
         /\ UNCHANGED <<exitCode, exitSite, guardFired>>

\* processInput(index), called with the flag f and the console lg of the caller.
\* top: called from the top-level script (an exception is then uncaught and
\* goes to the uncaughtException handler) rather than from a .then callback
\* (an exception then rejects the promise the .catch callback is attached to).
ProcessInput(index, f, lg, top) ==
    IF index = Len(inputs)
    THEN /\ exitCode' = <<IF f THEN 1 ELSE 0>>
         /\ exitSite' = "decision"
         /\ pc' = "exited"
         /\ fatalFailureOccurred' = f
         /\ log' = lg
         /\ UNCHANGED <<inputIndex, calls, analysis, guardFired>>
    ELSE /\ log' = Append(lg, Ev("invoke", index, 0))
         /\ calls' = Append(calls, [input |-> inputs[index + 1],
                                    options |-> PolylintOptions(index)])
         /\ UNCHANGED <<exitCode, exitSite>>
         /\ \E throws \in BOOLEAN :
               IF ~throws
               THEN /\ analysis' = [analysis EXCEPT ![index] = "pending"]
                    /\ inputIndex' = index
                    /\ pc' = "inflight"
                    /\ fatalFailureOccurred' = f
                    /\ UNCHANGED guardFired
               ELSE /\ analysis' = [analysis EXCEPT ![index] = "threw"]
                    /\ IF top
                       THEN /\ pc' = "stopped"
                            /\ inputIndex' = index
                            /\ fatalFailureOccurred' = TRUE
                            /\ guardFired' = guardFired \cup {"uncaughtException"}
                       ELSE /\ pc' = "catch"
                            /\ UNCHANGED inputIndex
                            /\ fatalFailureOccurred' = f
                            /\ UNCHANGED guardFired

\* (function processInput(inputIndex) { ... }(0));
Start ==
    /\ pc = "run"
    /\ ProcessInput(0, fatalFailureOccurred, log, TRUE)
    /\ UNCHANGED <<options, jsconfPolicyPromise, root, results>>

\* ThenCallback calling processInput(inputIndex + 1) before the forEach
ThenCallback_InvokeFirst ==
    /\ pc = "then"
    /\ IF inputIndex + 1 = Len(inputs)
       THEN LET st == ForEachWarning(results[inputIndex], inputIndex, 1,
                         [fatal |-> fatalFailureOccurred, log |-> log, threw |-> FALSE])
            IN ProcessInput(inputIndex + 1, st.fatal, st.log, FALSE)
       ELSE LET st == ForEachWarning(results[inputIndex], inputIndex, 1,
                         [fatal |-> fatalFailureOccurred,
                          log |-> Append(log, Ev("invoke", inputIndex + 1, 0)),
                          threw |-> FALSE])
            IN /\ inputIndex' = inputIndex + 1
               /\ calls' = Append(calls, [input |-> inputs[inputIndex + 2],
                                          options |-> PolylintOptions(inputIndex + 1)])
               /\ analysis' = [analysis EXCEPT ![inputIndex + 1] = "pending"]
               /\ pc' = "inflight"
               /\ fatalFailureOccurred' = st.fatal
               /\ log' = st.log
               /\ UNCHANGED <<exitCode, exitSite, guardFired>>
    /\ UNCHANGED <<options, jsconfPolicyPromise, root, results>>

\* the chain written .then(callback, handler): the handler does not cover the
\* callback, whose exception becomes an unhandled rejection
ThenCallback_TwoArgThen ==
    /\ pc = "then"
    /\ LET st == ForEachWarning(results[inputIndex], inputIndex, 1,
                                [fatal |-> fatalFailureOccurred, log |-> log, threw |-> FALSE])
       IN IF st.threw
          THEN /\ pc' = "stopped"
               /\ fatalFailureOccurred' = TRUE
               /\ guardFired' = guardFired \cup {"unhandledRejection"}
               /\ log' = st.log
               /\ UNCHANGED <<inputIndex, calls, analysis, exitCode, exitSite>>
          ELSE ProcessInput(inputIndex + 1, st.fatal, st.log, TRUE)
    /\ UNCHANGED <<options, jsconfPolicyPromise, root, results>>

\* .then(function(lintWarnings){ forEach(prettyPrintWarning); processInput(inputIndex + 1); })
ThenCallback ==
    /\ pc = "then"
    /\ LET st == ForEachWarning(results[inputIndex], inputIndex, 1,
                                [fatal |-> fatalFailureOccurred, log |-> log, threw |-> FALSE])
       IN IF st.threw
          THEN /\ pc' = "catch"
               /\ fatalFailureOccurred' = st.fatal
               /\ log' = st.log
               /\ UNCHANGED <<inputIndex, calls, analysis, exitCode, exitSite, guardFired>>
          ELSE ProcessInput(inputIndex + 1, st.fatal, st.log, FALSE)
    /\ UNCHANGED <<options, jsconfPolicyPromise, root, results>>

\* .catch(function(err){ console.error(err); fatalFailureOccurred = true; })
CatchCallback ==
    /\ pc = "catch"
    /\ log' = Append(log, Ev("error", inputIndex, 0))
    /\ fatalFailureOccurred' = TRUE
    /\ pc' = "stopped"
    /\ UNCHANGED <<options, calls, jsconfPolicyPromise, root, inputIndex, analysis, results,
                   exitCode, exitSite, guardFired>>

\* The .catch callback returns without calling processInput or process.exit:
\* nothing is scheduled any more, and once the policy read has called back
\* the event loop is empty and the process ends with status 0.
EventLoopDrained ==
    /\ pc = "stopped"
    /\ jsconfPolicyPromise.state # "pending"
    /\ exitCode' = <<0>>
    /\ exitSite' = "drained"
    /\ pc' = "exited"
    /\ UNCHANGED <<options, calls, jsconfPolicyPromise, root, fatalFailureOccurred, inputIndex,
                   analysis, results, log, guardFired>>

(***************************************************************************)
(* Policy loader callback                                                  *)
(***************************************************************************)

\* fs.readFile(options.policy, ..): err is set when the file cannot be read
ReadFile(path) ==
    IF path = "unreadable.json"
    THEN [err |-> TRUE, fileContent |-> "none"]
    ELSE [err |-> FALSE, fileContent |-> path]

\* JSON.parse(fileContent) throws on text that is not JSON
JsonParseThrows(fileContent) == fileContent = "malformed.json"

\* jsconf_policy.fromRequirements(parsed) throws on invalid requirements
FromRequirementsThrows(fileContent) == fileContent = "invalid.json"

\* fulfill(v) and reject(e) of a promise: they settle it if it is pending and
\* do nothing otherwise
Fulfill(p, v) == IF p.state = "pending" THEN [p EXCEPT !.state = "fulfilled", !.value = v] ELSE p

Reject(p, e) == IF p.state = "pending" THEN [p EXCEPT !.state = "rejected", !.value = e] ELSE p

\* the readFile callback with a catch block that swallows the exception:
\* catch (ex) { fulfill(null); }
PolicyReadCallback_SwallowException ==
    /\ pc \in AsyncPcs
    /\ jsconfPolicyPromise.state = "pending"
    /\ LET r == ReadFile(options.policy)
       IN jsconfPolicyPromise' =
             IF r.err THEN Reject(jsconfPolicyPromise, "IOError")
             ELSE IF JsonParseThrows(r.fileContent) \/ FromRequirementsThrows(r.fileContent)
                  THEN Fulfill(jsconfPolicyPromise, "null")
                  ELSE Fulfill(jsconfPolicyPromise, "policy")
    /\ UNCHANGED <<options, calls, pc, root, fatalFailureOccurred, inputIndex, analysis, results,
                   log, exitCode, exitSite, guardFired>>

\* function (err, fileContent) { if (err) reject(err) else try { fulfill(fromRequirements(JSON.parse(..))) } catch (ex) { reject(ex) } }
\* It is called once, after the script's synchronous pass.
PolicyReadCallback ==
    /\ pc \in AsyncPcs
    /\ jsconfPolicyPromise.state = "pending"
    /\ LET r == ReadFile(options.policy)
       IN jsconfPolicyPromise' =
             IF r.err THEN Reject(jsconfPolicyPromise, "IOError")
             ELSE IF JsonParseThrows(r.fileContent)
                  THEN Reject(jsconfPolicyPromise, "ParseError")
                  ELSE IF FromRequirementsThrows(r.fileContent)
                       THEN Reject(jsconfPolicyPromise, "PolicyError")
                       ELSE Fulfill(jsconfPolicyPromise, "policy")
    /\ UNCHANGED <<options, calls, pc, root, fatalFailureOccurred, inputIndex, analysis, results,
                   log, exitCode, exitSite, guardFired>>

(***************************************************************************)
(* Analyzer collaborator (../polylint)                                     *)
(***************************************************************************)

\* The promise returned by polylint(input, {root, jsconfPolicy, redirect})
\* settles: it resolves with a sequence of warning records or rejects.  The
\* analyzer consumes the policy promise it was given: it settles only after
\* the policy promise has, and rejects when the policy promise rejected.
AnalyzerSettle ==
    /\ pc = "inflight"
    /\ analysis[inputIndex] = "pending"
    /\ jsconfPolicyPromise.state \in {"fulfilled", "rejected"}
    /\ \/ /\ jsconfPolicyPromise.state = "fulfilled"
          /\ \E ws \in WarningSeqs(MaxWarnings - SumLen(results, DOMAIN results)) :
                /\ results' = [results EXCEPT ![inputIndex] = ws]
                /\ analysis' = [analysis EXCEPT ![inputIndex] = "resolved"]
                /\ pc' = "then"
       \/ /\ analysis' = [analysis EXCEPT ![inputIndex] = "rejected"]
          /\ pc' = "catch"
          /\ UNCHANGED results
    /\ UNCHANGED <<options, calls, jsconfPolicyPromise, root, fatalFailureOccurred, inputIndex,
                   log, exitCode, exitSite, guardFired>>

(***************************************************************************)
(* Process-level failure guard                                             *)
(***************************************************************************)

\* the uncaughtException handler ending the process: console.error(..); process.exit(1)
UncaughtException_Exit ==
    /\ pc \in AsyncPcs
    /\ fatalFailureOccurred' = TRUE
    /\ guardFired' = guardFired \cup {"uncaughtException"}
    /\ exitCode' = <<1>>
    /\ exitSite' = "guard"
    /\ pc' = "exited"
    /\ UNCHANGED <<options, calls, jsconfPolicyPromise, root, inputIndex, analysis, results, log>>

\* process.on('uncaughtException', function(err) { console.error(..); fatalFailureOccurred = true; })
UncaughtException ==
    /\ pc \in AsyncPcs
    /\ fatalFailureOccurred' = TRUE
    /\ guardFired' = guardFired \cup {"uncaughtException"}
    /\ UNCHANGED <<options, calls, pc, jsconfPolicyPromise, root, inputIndex, analysis, results,
                   log, exitCode, exitSite>>

\* process.on('unhandledRejection', function(reason, p) { console.error(..); fatalFailureOccurred = true; })
UnhandledRejection ==
    /\ pc \in AsyncPcs
    /\ fatalFailureOccurred' = TRUE
    /\ guardFired' = guardFired \cup {"unhandledRejection"}
    /\ UNCHANGED <<options, calls, pc, jsconfPolicyPromise, root, inputIndex, analysis, results,
                   log, exitCode, exitSite>>

Next ==
    \/ HelpCheck
    \/ CheckInputs
    \/ LoadPolicy
    \/ ResolveRoot
    \/ Start
    \/ ThenCallback
    \/ CatchCallback
    \/ EventLoopDrained
    \/ PolicyReadCallback
    \/ AnalyzerSettle
    \/ UncaughtException
    \/ UnhandledRejection

Spec == Init /\ [][Next]_vars

\* the script from its start to the root resolver, over every raw root
RootNext ==
    \/ HelpCheck
    \/ CheckInputs
    \/ LoadPolicy
    \/ ResolveRoot

RootSpec == RootInit /\ [][RootNext]_vars

(***************************************************************************)
(* Vocabulary of the properties                                            *)
(***************************************************************************)

\* the analyzer calls made so far, in order
Invocations == SelectSeq(log, LAMBDA e : e.ev = "invoke")

Invoked(i) == \E p \in 1..Len(log) : log[p] = Ev("invoke", i, 0)

\* the run got past option handling: it did not end at --help or at the usage error
PastValidation == pc \notin {"help", "inputs"} /\ exitSite \notin {"help", "usage"}

\* the .catch callback of input i has printed its error
ErrorPrinted(i) == \E p \in 1..Len(log) : log[p] = Ev("error", i, 0)

\* a record with fatal = true has been reported
FatalWarningReported ==
    \E p \in 1..Len(log) : log[p].ev = "report" /\ results[log[p].i][log[p].k].fatal

InputMissingOrEmpty == ~options.input.defined \/ Len(inputs) = 0

(***************************************************************************)
(* C1: analyzer invocations happen in list-index order, none twice, at     *)
(* most one is in flight, and input i+1 is invoked only after input i's    *)
(* promise has settled and every warning of input i has been reported.     *)
(***************************************************************************)
C1_SequentialInvocation ==
    /\ \A p \in 1..Len(Invocations) : Invocations[p].i = p - 1
    /\ Cardinality({i \in DOMAIN analysis : analysis[i] = "pending"}) <= 1
    /\ \A p \in 1..Len(log) :
          (log[p].ev = "invoke" /\ log[p].i > 0) =>
             LET j == log[p].i - 1
             IN /\ analysis[j] = "resolved"
                /\ \A k \in 1..Len(results[j]) :
                      \E q \in 1..(p - 1) : log[q] = Ev("report", j, k)

\* input 1 has been invoked after input 0 returned two warnings
C1_Witness ==
    /\ Len(inputs) = 2
    /\ Invoked(1)
    /\ Len(results[0]) = 2

(***************************************************************************)
(* C2: when the invocation for input i rejects, the error is printed, the  *)
(* flag is set and the run goes on to input i+1: a run that has ended has  *)
(* invoked every input, and ends with status 1 when an input rejected.     *)
(***************************************************************************)
C2_RejectionProceeds ==
    (pc = "exited" /\ PastValidation) =>
       \A i \in DOMAIN analysis :
          analysis[i] = "rejected" =>
             /\ ErrorPrinted(i)
             /\ fatalFailureOccurred
             /\ \A j \in DOMAIN analysis : Invoked(j)
             /\ exitCode = <<1>>

(***************************************************************************)
(* C3: a run with a non-empty input list ends with status 1 if and only if *)
(* a fatal warning was reported, the policy load failed, an invocation     *)
(* rejected or a guard handler ran; otherwise with status 0.               *)
(***************************************************************************)
C3_ExitStatusIffFatal ==
    (pc = "exited" /\ PastValidation) =>
       /\ exitCode \in {<<0>>, <<1>>}
       /\ exitCode = <<1>> <=>
             \/ FatalWarningReported
             \/ jsconfPolicyPromise.state = "rejected"
             \/ \E i \in DOMAIN analysis : analysis[i] = "rejected"
             \/ guardFired # {}

(***************************************************************************)
(* C4: a validated run in which every invocation settles reaches           *)
(* process.exit(fatalFailureOccurred ? 1 : 0): the chain never comes to    *)
(* rest, and the process never ends, without that decision.                *)
(***************************************************************************)
C4_ExitDecisionReached ==
    (/\ pc \in {"stopped", "exited"}
     /\ PastValidation
     /\ \A i \in DOMAIN analysis : analysis[i] \in {"idle", "resolved", "rejected"})
    => exitSite = "decision"

C6_MissingInputExitsNegative ==
    InputMissingOrEmpty =>
       /\ pc \in {"help", "inputs", "exited"}
       /\ jsconfPolicyPromise.state = "undefined"
       /\ Len(Invocations) = 0
       /\ pc = "exited" =>
             /\ \E p \in 1..Len(log) : log[p].ev = "usage"
             /\ exitCode # <<0>>
             /\ exitCode[1] < 0

(***************************************************************************)
(* C6, amended: whenever the input list is missing or empty and --help is  *)
(* not given, the process prints usage and exits with the negative status  *)
(* -1, with no policy load and no analyzer call, whatever the other        *)
(* options are.  (With --help the same run prints usage and exits 0.)      *)
(***************************************************************************)
C6_MissingInputWithoutHelp ==
    (InputMissingOrEmpty /\ ~options.help) =>
       /\ pc \in {"help", "inputs", "exited"}
       /\ jsconfPolicyPromise.state = "undefined"
       /\ Len(Invocations) = 0
       /\ pc = "exited" =>
             /\ \E p \in 1..Len(log) : log[p].ev = "usage"
             /\ exitCode = <<-1>>
             /\ exitSite = "usage"

\* an empty input list, with a policy path and a root given, has ended the run
C6_Witness ==
    /\ options.input.defined
    /\ Len(inputs) = 0
    /\ ~options.help
    /\ PolicyGiven
    /\ options.root # <<>>
    /\ pc = "exited"

(***************************************************************************)
(* C7: whenever --help is given the process prints usage and exits with    *)
(* status 0, with no policy load and no analyzer call, whatever the other  *)
(* options and inputs are.                                                 *)
(***************************************************************************)
C7_HelpExitsZero ==
    options.help =>
       /\ pc \in {"help", "exited"}
       /\ jsconfPolicyPromise.state = "undefined"
       /\ Len(Invocations) = 0
       /\ pc = "exited" =>
             /\ log = <<Ev("usage", 0, 0)>>
             /\ exitCode = <<0>>
             /\ exitSite = "help"

\* --help together with inputs and a policy path has ended the run
C7_Witness ==
    /\ options.help
    /\ Len(inputs) = MaxInputs
    /\ PolicyGiven
    /\ pc = "exited"

(***************************************************************************)
(* C8: root normalization is idempotent: normalizing the normalized root   *)
(* returns it unchanged; a non-empty root that already ends in a separator *)
(* is returned unchanged and the empty root normalizes to the empty root.  *)
(***************************************************************************)
C8_NormalizeIdempotent ==
    root # UndefinedRoot =>
       /\ NormalizeRoot(root) = root
       /\ EndsWithSeparator(options.root) => root = options.root
       /\ options.root = <<>> => root = <<>>

\* a root without a trailing separator has been normalized
C8_Witness ==
    /\ options.root = <<"a", "a">>
    /\ root = <<"a", "a", "/">>

(***************************************************************************)
(* C10, as claimed: for a non-empty raw root the normalized root ends with *)
(* exactly one separator: '/' is appended when the raw root does not end   *)
(* in a separator, the raw root is returned unchanged when it does; the    *)
(* empty root maps to the empty root.                                      *)
(***************************************************************************)
C10_ExactlyOneSeparator ==
    root # UndefinedRoot =>
       IF options.root \in {<<>>, NullRoot}
       THEN root = <<>>
       ELSE /\ EndsWithSeparator(root)
            /\ ~EndsWithSeparator(SubSeq(root, 1, Len(root) - 1))
            /\ ~EndsWithSeparator(options.root) => root = Append(options.root, "/")
            /\ EndsWithSeparator(options.root) => root = options.root

(***************************************************************************)
(* C10, amended: for a non-empty raw root the normalized root ends with a  *)
(* separator: exactly one '/' is appended when the raw root does not end   *)
(* in a separator, and the raw root is returned unchanged when it does,    *)
(* also when it ends in several separators; the empty root maps to the     *)
(* empty root.                                                             *)
(***************************************************************************)
C10_EndsWithSeparator ==
    root # UndefinedRoot =>
       IF options.root \in {<<>>, NullRoot}
       THEN root = <<>>
       ELSE /\ EndsWithSeparator(root)
            /\ ~EndsWithSeparator(options.root) =>
                  /\ root = Append(options.root, "/")
                  /\ ~EndsWithSeparator(SubSeq(root, 1, Len(root) - 1))
            /\ EndsWithSeparator(options.root) => root = options.root

\* a root ending in two separators has been normalized, and is unchanged
C10_Witness ==
    /\ options.root = <<"/", "\\">>
    /\ root = options.root

(***************************************************************************)
(* C9: when no guard handler ran, the policy load did not fail, every      *)
(* invocation made resolved and every returned record is a well-formed     *)
(* warning record with fatal = false, a run that has ended has invoked     *)
(* every input, reported every record and exited with status 0 at the      *)
(* exit-status decision.                                                   *)
(***************************************************************************)
C9_NonFatalRunExitsZero ==
    (/\ pc = "exited"
     /\ PastValidation
     /\ guardFired = {}
     /\ jsconfPolicyPromise.state # "rejected"
     /\ \A i \in DOMAIN analysis : analysis[i] \in {"idle", "resolved"}
     /\ \A i \in DOMAIN results : \A k \in 1..Len(results[i]) :
           ~results[i][k].fatal /\ results[i][k].hasLocation)
    => /\ exitCode = <<0>>
       /\ exitSite = "decision"
       /\ \A i \in DOMAIN analysis :
             /\ Invoked(i)
             /\ analysis[i] = "resolved"
             /\ \A k \in 1..Len(results[i]) :
                   \E p \in 1..Len(log) : log[p] = Ev("report", i, k)

\* two inputs, each resolved with one non-fatal warning, and the run has ended
C9_Witness ==
    /\ pc = "exited"
    /\ Len(inputs) = 2
    /\ guardFired = {}
    /\ \A i \in DOMAIN results :
          /\ analysis[i] = "resolved"
          /\ results[i] = <<[fatal |-> FALSE, hasLocation |-> TRUE]>>

(***************************************************************************)
(* C11: fatalFailureOccurred is false initially and monotone: once true it *)
(* stays true under every later step.  It becomes true only in the .then   *)
(* callback of an input that returned a fatal record (prettyPrintWarning), *)
(* in a .catch callback, or when a guard handler runs; and the status of   *)
(* the exit-status decision is the flag's value at that decision.          *)
(***************************************************************************)
C11_FlagMonotone ==
    /\ ~fatalFailureOccurred
    /\ [][/\ fatalFailureOccurred => fatalFailureOccurred'
          /\ (~fatalFailureOccurred /\ fatalFailureOccurred') =>
                \/ /\ pc = "then"
                   /\ \E k \in 1..Len(results[inputIndex]) : results[inputIndex][k].fatal
                \/ pc = "catch" /\ pc' = "stopped"
                \/ guardFired' # guardFired
          /\ (exitSite # "decision" /\ exitSite' = "decision") =>
                exitCode' = <<IF fatalFailureOccurred' THEN 1 ELSE 0>>
       ]_vars

\* a fatal record of input 0 was followed by a non-fatal record of input 1, and
\* the run ended at the exit-status decision
C11_Witness ==
    /\ pc = "exited"
    /\ exitSite = "decision"
    /\ Len(inputs) = 2
    /\ results[0] = <<[fatal |-> TRUE, hasLocation |-> TRUE]>>
    /\ results[1] = <<[fatal |-> FALSE, hasLocation |-> TRUE]>>
    /\ fatalFailureOccurred

(***************************************************************************)
(* C12: a guard handler running during the asynchronous part of the run    *)
(* changes only the flag (to true) and the console (its diagnostic): it    *)
(* does not end the process and leaves the chain's position, the current   *)
(* input, the analyzer promises and everything else as they are, so the    *)
(* remaining inputs are processed as without it.  After validation no     *)
(* step of a guard handler ends the process, and process.exit is called    *)
(* only at the completion step (otherwise the process ends, with no exit   *)
(* statement, when the event loop has drained).                            *)
(***************************************************************************)
C12_GuardOnlyRecords ==
    /\ [][(pc \in AsyncPcs /\ guardFired' # guardFired) =>
             /\ fatalFailureOccurred'
             /\ pc' = pc
             /\ inputIndex' = inputIndex
             /\ calls' = calls
             /\ analysis' = analysis
             /\ results' = results
             /\ log' = log
             /\ exitCode' = exitCode
             /\ exitSite' = exitSite
             /\ jsconfPolicyPromise' = jsconfPolicyPromise
             /\ root' = root
             /\ options' = options
       ]_vars
    /\ [][(PastValidation /\ exitCode = <<>> /\ exitCode' # <<>>) =>
             /\ guardFired' = guardFired
             /\ exitSite' # "drained" => exitSite' = "decision"
       ]_vars

\* a guard handler ran in a run without fatal records, both inputs were still
\* processed and the run ended at the exit-status decision with status 1
C12_Witness ==
    /\ pc = "exited"
    /\ exitSite = "decision"
    /\ exitCode = <<1>>
    /\ guardFired # {}
    /\ Len(inputs) = 2
    /\ \A i \in DOMAIN results : Invoked(i) /\ results[i] = <<[fatal |-> FALSE, hasLocation |-> TRUE]>>

(***************************************************************************)
(* C13: when every analyzer invocation resolved and the run has reached    *)
(* its end, each returned warning record has been reported exactly once    *)
(* and the reported sequence is the concatenation, in input-list order, of *)
(* each input's records in the order the analyzer returned them; before    *)
(* the end the reported sequence is a prefix of that concatenation.        *)
(***************************************************************************)
Reported == SelectSeq(log, LAMBDA e : e.ev = "report")

ReportsOf(i) == [k \in 1..Len(results[i]) |-> Ev("report", i, k)]

RECURSIVE ConcatReports(_)
ConcatReports(n) == IF n = 0 THEN <<>> ELSE ConcatReports(n - 1) \o ReportsOf(n - 1)

C13_ReportedInOrder ==
    LET all == ConcatReports(Len(inputs))
    IN /\ Len(Reported) <= Len(all)
       /\ Reported = SubSeq(all, 1, Len(Reported))
       /\ (/\ pc = "exited"
           /\ PastValidation
           /\ \A i \in DOMAIN analysis : analysis[i] = "resolved"
           /\ \A i \in DOMAIN results :
                 \A k \in 1..Len(results[i]) : results[i][k].hasLocation)
          => Reported = all

\* two inputs with one record each have been reported, input 0's first
C13_Witness ==
    /\ pc = "exited"
    /\ Len(inputs) = 2
    /\ Len(results[0]) = 1
    /\ Len(results[1]) = 1
    /\ Reported = <<Ev("report", 0, 1), Ev("report", 1, 1)>>

(***************************************************************************)
(* C14: reporting a record with fatal = true sets the flag but does not    *)
(* abort the run: in a run that has ended (the analyzer returning promises *)
(* and well-formed records), the flag is set, the remaining records of the *)
(* same input have been reported, every later input has been invoked, and  *)
(* the exit status is 1.                                                   *)
(***************************************************************************)
C14_FatalWarningDoesNotAbort ==
    (/\ pc = "exited"
     /\ PastValidation
     /\ \A i \in DOMAIN analysis : analysis[i] # "threw"
     /\ \A i \in DOMAIN results :
           \A k \in 1..Len(results[i]) : results[i][k].hasLocation)
    => \A i \in DOMAIN results :
          (\E k \in 1..Len(results[i]) : results[i][k].fatal) =>
             /\ fatalFailureOccurred
             /\ \A k \in 1..Len(results[i]) :
                   \E p \in 1..Len(log) : log[p] = Ev("report", i, k)
             /\ \A j \in DOMAIN analysis : j > i => Invoked(j)
             /\ exitCode = <<1>>

(***************************************************************************)
(* C15: the run configuration is fixed before the first analyzer call and  *)
(* every call receives it unchanged: call p is made for input p with the   *)
(* normalized root, the one policy promise object and options.bowerdir; no *)
(* step after the first call changes the root, the options or which        *)
(* promise object jsconfPolicyPromise is; and at most one policy read is   *)
(* started in a run (one exactly when a policy path is given).             *)
(***************************************************************************)
C15_SameConfiguration ==
    /\ [](/\ \A p \in 1..Len(calls) :
                calls[p] = [input |-> inputs[p],
                            options |-> [root |-> NormalizeRoot(options.root),
                                         jsconfPolicy |-> jsconfPolicyPromise.id,
                                         redirect |-> options.bowerdir]]
          /\ \A p, q \in 1..Len(calls) : calls[p].options = calls[q].options
          /\ Len(calls) > 0 =>
                /\ root = NormalizeRoot(options.root)
                /\ jsconfPolicyPromise.state # "undefined"
          /\ jsconfPolicyPromise.id <= 1
          /\ jsconfPolicyPromise.state # "undefined" =>
                (jsconfPolicyPromise.id = 1 <=> PolicyGiven))
    /\ [][Len(calls) > 0 =>
             /\ root' = root
             /\ options' = options
             /\ jsconfPolicyPromise'.id = jsconfPolicyPromise.id
       ]_vars

\* two analyzer calls have been made in a run with a policy path, a root and
\* an explicit bowerdir
C15_Witness ==
    /\ Len(calls) = 2
    /\ PolicyGiven
    /\ options.root = <<"a">>
    /\ options.bowerdir = "lib"
    /\ jsconfPolicyPromise.state = "fulfilled"

(***************************************************************************)
(* C16: the policy promise settles once and never changes afterwards.      *)
(* With no policy path it is fulfilled with null and no file is read; with *)
(* a path it is rejected when the read fails, when the text does not       *)
(* parse, or when the conversion throws, and fulfilled with the converted  *)
(* policy otherwise; it is never both fulfilled and rejected.              *)
(***************************************************************************)
C16_PolicySettlesOnce ==
    /\ [](jsconfPolicyPromise.state \in {"fulfilled", "rejected"} =>
             IF ~PolicyGiven
             THEN jsconfPolicyPromise = [state |-> "fulfilled", value |-> "null", id |-> 0]
             ELSE /\ jsconfPolicyPromise.id = 1
                  /\ options.policy = "unreadable.json" =>
                        /\ jsconfPolicyPromise.state = "rejected"
                        /\ jsconfPolicyPromise.value = "IOError"
                  /\ options.policy = "malformed.json" =>
                        /\ jsconfPolicyPromise.state = "rejected"
                        /\ jsconfPolicyPromise.value = "ParseError"
                  /\ options.policy = "invalid.json" =>
                        /\ jsconfPolicyPromise.state = "rejected"
                        /\ jsconfPolicyPromise.value = "PolicyError"
                  /\ options.policy = "policy.json" =>
                        /\ jsconfPolicyPromise.state = "fulfilled"
                        /\ jsconfPolicyPromise.value = "policy")
    /\ [](~PolicyGiven => jsconfPolicyPromise.state \in {"undefined", "fulfilled"})
    /\ [][jsconfPolicyPromise.state \in {"fulfilled", "rejected"} =>
             jsconfPolicyPromise' = jsconfPolicyPromise]_vars

\* the policy file held text that does not parse, the promise was rejected
\* and the run went on to its end
C16_Witness ==
    /\ options.policy = "malformed.json"
    /\ jsconfPolicyPromise.state = "rejected"
    /\ pc = "exited"

(***************************************************************************)
(* C17: an exception thrown in input i's .then callback, by reporting a    *)
(* record without location or by the polylint call for input i+1, is       *)
(* handled by input i's own .catch callback: the callback's step runs no   *)
(* guard handler and leaves the chain at input i's .catch callback, which  *)
(* then prints the error for input i and sets the flag, again without a    *)
(* guard handler.                                                          *)
(***************************************************************************)
C17_CallbackExceptionCaught ==
    /\ [][(pc = "then" /\ pc' # "then") =>
             /\ guardFired' = guardFired
             /\ (\/ \E k \in 1..Len(results[inputIndex]) : ~results[inputIndex][k].hasLocation
                 \/ /\ inputIndex + 1 < Len(inputs)
                    /\ analysis'[inputIndex + 1] = "threw")
                => /\ pc' = "catch"
                   /\ inputIndex' = inputIndex
       ]_vars
    /\ [][(pc = "catch" /\ pc' # "catch") =>
             /\ pc' = "stopped"
             /\ log' = Append(log, Ev("error", inputIndex, 0))
             /\ fatalFailureOccurred'
             /\ guardFired' = guardFired
       ]_vars

\* a non-fatal record without location made the reporter throw, and input 0's
\* .catch callback printed the error and set the flag; no guard handler ran
C17_Witness ==
    /\ Len(inputs) = 2
    /\ results[0] = <<[fatal |-> FALSE, hasLocation |-> FALSE]>>
    /\ ErrorPrinted(0)
    /\ fatalFailureOccurred
    /\ guardFired = {}

(***************************************************************************)
(* C18: the exit-status decision is taken at most once (no step follows    *)
(* it), and only when every input has been invoked and has resolved and    *)
(* all its records have been reported; its status is 0 or 1, and 0 only    *)
(* with the flag false.  So the decision never produces status 0 while an  *)
(* input is unprocessed or after an input rejected.                        *)
(***************************************************************************)
C18_DecisionOnlyAfterAllResolved ==
    /\ [](exitSite = "decision" =>
             /\ pc = "exited"
             /\ exitCode = <<IF fatalFailureOccurred THEN 1 ELSE 0>>
             /\ Len(calls) = Len(inputs)
             /\ \A i \in DOMAIN analysis :
                   /\ Invoked(i)
                   /\ analysis[i] = "resolved"
                   /\ \A k \in 1..Len(results[i]) :
                         \E p \in 1..Len(log) : log[p] = Ev("report", i, k))
    /\ [][exitSite # "decision"]_vars

\* the decision has been taken with status 0 after two inputs with a record each
C18_Witness ==
    /\ exitSite = "decision"
    /\ exitCode = <<0>>
    /\ Len(inputs) = 2
    /\ Len(results[0]) = 1
    /\ Len(results[1]) = 1

====
